---- MODULE Spec2Model ----
(***************************************************************************)
(* A model of the GNOME Software Android (F-Droid) plugin,                 *)
(* src/src/gs-plugin-android/gs-plugin-android.c.                          *)
(*                                                                         *)
(* The plugin is a GObject driven by the host's main loop.  Every          *)
(* host-facing operation creates a GTask, possibly changes the state of    *)
(* the GsApp entities it was given, issues at most one D-Bus call on       *)
(* fdroid_proxy and returns; the reply is handled later by the matching    *)
(* fdroid_*_cb callback, which completes the GTask.  The host then reads   *)
(* the result with the matching *_finish function.                         *)
(***************************************************************************)
EXTENDS Integers, Sequences, FiniteSets, TLC

(***************************************************************************)
(* Bounds of the model.                                                    *)
(***************************************************************************)
MaxTasks == 2       \* GTasks alive at the same time (Spec)
MaxListLen == 2     \* length of a GsAppList handed in by the host
MaxOps == 2         \* host invocations in one behaviour
MaxReplyLen == 1    \* entries in a listing reply
MaxRepoLen == 2     \* (name, url) pairs in a GetRepositories reply

(***************************************************************************)
(* The GsApp entities the host holds.  Their kind, management plugin and   *)
(* "android::package-name" metadata never change in the code modelled      *)
(* here, so they are tables; only state and state_recover are variables.   *)
(***************************************************************************)
NULL == "NULL"
Apps == {"A", "B", "C", "N"}
Repos == {"R"}
Entities == Apps \cup Repos

\* gs_app_get_kind (app)
gs_app_get_kind(app) ==
  IF app \in Repos THEN "REPOSITORY" ELSE "DESKTOP_APP"

\* gs_app_has_management_plugin (app, plugin): "N" belongs to another plugin
gs_app_has_management_plugin(app) == app \in {"A", "B", "C", "R"}

\* gs_app_get_metadata_item (app, "android::package-name"); NULL when unset
gs_app_get_metadata_item(app) ==
  CASE app = "A" -> "pkg.a"
    [] app = "B" -> "pkg.b"
    [] OTHER -> NULL

\* gs_app_get_id (repo)
gs_app_get_id(app) == app

StableStates == {"AVAILABLE", "INSTALLED", "UPDATABLE"}
TransientStates == {"INSTALLING", "REMOVING"}
AppStates == StableStates \cup TransientStates

(***************************************************************************)
(* GError values.  A remote error arrives from g_dbus_proxy_call_finish    *)
(* with the D-Bus envelope ("GDBus.Error:<name>: ") in its message;        *)
(* g_dbus_error_strip_remote_error removes the envelope.                   *)
(***************************************************************************)
NoError == [code |-> "NONE", enveloped |-> FALSE]
NotSupported == [code |-> "NOT_SUPPORTED", enveloped |-> FALSE]
Failed == [code |-> "FAILED", enveloped |-> FALSE]
Cancelled == [code |-> "CANCELLED", enveloped |-> FALSE]
RemoteError == [code |-> "REMOTE", enveloped |-> TRUE]
ConnectionError == [code |-> "CONNECTION", enveloped |-> FALSE]

\* a faulty variant: the envelope is left in the error
KeepEnvelope(e) == e

g_dbus_error_strip_remote_error(e) == [e EXCEPT !.enveloped = FALSE]

\* what g_dbus_proxy_call_finish can hand to a callback
CallErrors == {RemoteError, Cancelled}

VARIABLES
  apps,             \* entity -> [state, state_recover] (GsApp private data)
  fdroid_proxy,     \* self->fdroid_proxy: NoProxy or <<the handle's number>>
  tasks,            \* slot -> GTask (NoTask when the slot is free)
  calls,            \* D-Bus calls in flight
  updates_changed,  \* gs_plugin_updates_changed signals emitted so far
  installed_apps,   \* self->installed_apps
  updatable_apps,   \* self->updatable_apps
  plugin_cache,     \* the GsPlugin cache (gs_plugin_cache_add)
  nops              \* host invocations so far

vars == <<apps, fdroid_proxy, tasks, calls, updates_changed, installed_apps,
          updatable_apps, plugin_cache, nops>>

caches == <<installed_apps, updatable_apps>>

Slots == 1..MaxTasks

\* the GsAppLists of at most n entities of S (a GsAppList holds no entity twice)
RECURSIVE DistinctSeqs(_, _)
DistinctSeqs(S, n) ==
  IF n = 0 THEN {<<>>}
  ELSE LET shorter == DistinctSeqs(S, n - 1)
           ext == {p \in shorter \X S :
                     /\ Len(p[1]) = n - 1
                     /\ \A i \in 1..Len(p[1]) : p[1][i] # p[2]}
       IN shorter \cup {Append(p[1], p[2]) : p \in ext}

AppLists == DistinctSeqs(Apps, MaxListLen)

(***************************************************************************)
(* GsApp state (libgnomesoftware, gs-app.c), as used at the call sites.    *)
(* gs_app_set_state stores the new state and remembers every non-transient *)
(* state as the state to recover to; gs_app_set_state_recover restores it. *)
(***************************************************************************)
\* a faulty variant: a transient state is remembered as the state to recover
SetStateNoRecover(ap, app, s) ==
  [ap EXCEPT ![app] = [state |-> s, state_recover |-> s]]

gs_app_set_state(ap, app, s) ==
  [ap EXCEPT ![app] =
     [state |-> s,
      state_recover |-> IF s \in TransientStates THEN @.state_recover ELSE s]]

\* a faulty variant: no rollback
KeepState(ap, app) == ap

gs_app_set_state_recover(ap, app) ==
  [ap EXCEPT ![app] = [ap[app] EXCEPT !.state = ap[app].state_recover]]

\* gs_app_set_state on every entity of a list, in list order
RECURSIVE SetStateAll(_, _, _)
SetStateAll(ap, l, s) ==
  IF l = <<>> THEN ap
  ELSE SetStateAll(gs_app_set_state(ap, Head(l), s), Tail(l), s)

StateOf(ap) == [e \in Entities |-> ap[e].state]

(***************************************************************************)
(* GTask.  kind is the source tag; task_data what g_task_set_task_data     *)
(* stored; status/value/result/error the completion and fired how often   *)
(* the task was completed.  The other fields record the                    *)
(* invocation, so that its completion can be compared with it: the list    *)
(* and flags (or, in a 1-tuple, the query) handed in, every entity's state *)
(* and the signal counter at the call (pre, pre_changed) and the two       *)
(* caches then (pre_caches), the D-Bus calls issued for this task (sent),  *)
(* the outcome the callback got from g_dbus_proxy_call_finish (res) and    *)
(* the reply it then read (reply).                                         *)
(***************************************************************************)
NoTask ==
  [kind |-> "none", serial |-> 0, task_data |-> <<>>, list |-> <<>>,
   flags |-> {}, query |-> <<>>, pre |-> [e \in Entities |-> "NONE"], pre_changed |-> 0,
   pre_caches |-> <<<<>>, <<>>>>, sent |-> <<>>,
   res |-> [error |-> NoError, success |-> FALSE], reply |-> <<>>,
   status |-> "none", fired |-> 0, value |-> FALSE, result |-> <<>>,
   error |-> NoError]

g_task_new(kind, l, flags) ==
  [kind |-> kind, serial |-> nops + 1, task_data |-> <<>>, list |-> l,
   flags |-> flags, query |-> <<>>, pre |-> StateOf(apps), pre_changed |-> updates_changed,
   pre_caches |-> caches, sent |-> <<>>,
   res |-> [error |-> NoError, success |-> FALSE], reply |-> <<>>,
   status |-> "pending", fired |-> 0, value |-> FALSE, result |-> <<>>,
   error |-> NoError]

\* the GAsyncResult handed to the task's callback
Res(task, error, success) ==
  [task EXCEPT !.res = [error |-> error, success |-> success]]

\* a faulty variant: the signal is not emitted
NoSignal(n) == n

\* gs_plugin_updates_changed (plugin): one more signal
gs_plugin_updates_changed(n) == n + 1

g_task_set_task_data(task, data) == [task EXCEPT !.task_data = data]

g_task_return_boolean(task, b) ==
  [task EXCEPT !.status = "returned", !.fired = @ + 1, !.value = b]

g_task_return_pointer(task, l) ==
  [task EXCEPT !.status = "returned", !.fired = @ + 1, !.value = TRUE,
               !.result = l]

g_task_return_error(task, e) ==
  [task EXCEPT !.status = "returned", !.fired = @ + 1, !.error = e]

\* self->fdroid_proxy before any setup succeeded (a NULL pointer)
NoProxy == <<>>

\* g_dbus_proxy_call: a NULL proxy fails the G_IS_DBUS_PROXY check, so no
\* call is issued and the callback never runs
g_dbus_proxy_call(cs, proxy, t, method, args) ==
  IF proxy = NoProxy THEN cs
  ELSE cs \cup {[task |-> t, method |-> method, args |-> args]}

\* the task's record of the call issued for it
Sent(task, proxy, method, args) ==
  IF proxy = NoProxy THEN task
  ELSE [task EXCEPT !.sent = Append(@, [method |-> method, args |-> args])]

\* the task of call c, with the outcome its callback was handed
Got(c, error, success) == Res(tasks[c.task], error, success)

\* the task of call c in a listing callback: g_variant_get reads the reply
\* when the call succeeded
GotReply(c, error, reply) ==
  [Got(c, error, error = NoError)
     EXCEPT !.reply = IF error = NoError THEN <<reply>> ELSE <<>>]

\* an *_async function creates its task in a free slot
Invoked(t, task) ==
  /\ tasks[t] = NoTask
  /\ nops < MaxOps
  /\ nops' = nops + 1
  /\ tasks' = [tasks EXCEPT ![t] = task]

\* a callback runs for the reply of the call it was given to
IsReply(c, method) == c \in calls /\ c.method = method

\* the callback consumes the reply and leaves its task as given
Replied(c, task) ==
  /\ calls' = calls \ {c}
  /\ tasks' = [tasks EXCEPT ![c.task] = task]

(***************************************************************************)
(* The initial state.  Every entity owned by the plugin was created by a   *)
(* listing callback (fdroid_get_repositories_cb, fdroid_search_cb, ...),   *)
(* which set its state to a non-transient one; a listing callback runs     *)
(* only for a call issued on a proxy, so a setup has succeeded before any  *)
(* such entity exists.  The entities start in the three states the listing *)
(* callbacks give: A as a search result not installed, B as an installed   *)
(* app, C and N as apps with an update, R as a listed repository.  The     *)
(* handlers never read an entity's state, so the operations below take     *)
(* every entity through the other states.                                  *)
(***************************************************************************)
InitialState ==
  [e \in Entities |->
     CASE e = "A" -> "AVAILABLE"
       [] e \in {"B", "R"} -> "INSTALLED"
       [] OTHER -> "UPDATABLE"]

Init ==
  /\ apps = [e \in Entities |-> [state |-> InitialState[e],
                                 state_recover |-> InitialState[e]]]
  /\ fdroid_proxy = <<0>>
  /\ tasks = [t \in Slots |-> NoTask]
  /\ calls = {}
  /\ updates_changed = 0
  /\ installed_apps = <<>>
  /\ updatable_apps = <<>>
  /\ plugin_cache = {}
  /\ nops = 0

(***************************************************************************)
(* setup: gs_plugin_android_setup_async and fdroid_proxy_setup_cb.         *)
(* g_dbus_proxy_new_for_bus needs no proxy; its reply is a new proxy or an *)
(* error.  A new proxy is numbered by the task that obtained it.           *)
(***************************************************************************)
gs_plugin_android_setup_async(t) ==
  /\ Invoked(t, g_task_new("setup", <<>>, {}))
  /\ calls' = calls \cup {[task |-> t, method |-> "g_dbus_proxy_new_for_bus",
                           args |-> <<>>]}
  /\ UNCHANGED <<apps, fdroid_proxy, updates_changed, caches, plugin_cache>>

\* what g_dbus_proxy_new_for_bus_finish can fail with: the connection error,
\* or the cancellation of the setup's cancellable
SetupErrors == {ConnectionError, Cancelled}

\* a faulty variant: a proxy already held is kept
setup_cb_keeping_proxy(c, error) ==
  /\ IsReply(c, "g_dbus_proxy_new_for_bus")
  /\ IF error # NoError
     THEN /\ Replied(c, g_task_return_error(Got(c, error, FALSE), error))
          /\ UNCHANGED fdroid_proxy
     ELSE /\ Replied(c,
                     g_task_return_boolean(Got(c, NoError, TRUE), TRUE))
          /\ fdroid_proxy' = IF fdroid_proxy = NoProxy
                             THEN <<tasks[c.task].serial>>
                             ELSE fdroid_proxy
  /\ UNCHANGED <<apps, updates_changed, caches, plugin_cache, nops>>

fdroid_proxy_setup_cb(c, error) ==
  /\ IsReply(c, "g_dbus_proxy_new_for_bus")
  /\ IF error # NoError
     THEN /\ Replied(c, g_task_return_error(Got(c, error, FALSE), error))
          /\ UNCHANGED fdroid_proxy
     ELSE /\ Replied(c,
                     g_task_return_boolean(Got(c, NoError, TRUE), TRUE))
          /\ fdroid_proxy' = <<tasks[c.task].serial>>
  /\ UNCHANGED <<apps, updates_changed, caches, plugin_cache, nops>>

(***************************************************************************)
(* installApps: gs_plugin_android_install_apps_async, fdroid_install_app_cb*)
(***************************************************************************)
InstallFlags == {{}, {"NO_DOWNLOAD"}, {"NO_APPLY"}}

\* the loop of lines 626-648: the entities that pass the two filters
InstallList(list) ==
  SelectSeq(list, LAMBDA a : /\ gs_app_has_management_plugin(a)
                             /\ gs_app_get_metadata_item(a) # NULL)

\* a faulty variant: the flags are tested after the loop over the list
install_apps_async_flags_after_loop(t, list, flags) ==
  LET task == g_task_new("install", list, flags)
      install_list == InstallList(list)
      package_name == gs_app_get_metadata_item(install_list[1])
  IN /\ \A i \in 1..Len(list) : gs_app_get_kind(list[i]) # "REPOSITORY"
     /\ apps' = SetStateAll(apps, install_list, "INSTALLING")
     /\ IF flags \cap {"NO_DOWNLOAD", "NO_APPLY"} # {} \/ Len(install_list) # 1
        THEN /\ Invoked(t, g_task_return_error(task, NotSupported))
             /\ UNCHANGED calls
        ELSE /\ Invoked(t, Sent(g_task_set_task_data(task, install_list),
                                fdroid_proxy, "Install", <<package_name>>))
             /\ calls' = g_dbus_proxy_call(calls, fdroid_proxy, t,
                                           "Install", <<package_name>>)
     /\ UNCHANGED <<fdroid_proxy, updates_changed, caches, plugin_cache>>

gs_plugin_android_install_apps_async(t, list, flags) ==
  LET task == g_task_new("install", list, flags)
      install_list == InstallList(list)
      package_name == gs_app_get_metadata_item(install_list[1])
  IN /\ \A i \in 1..Len(list) : gs_app_get_kind(list[i]) # "REPOSITORY"
     /\ IF flags \cap {"NO_DOWNLOAD", "NO_APPLY"} # {}
        THEN /\ Invoked(t, g_task_return_error(task, NotSupported))
             /\ UNCHANGED <<apps, calls>>
        ELSE /\ apps' = SetStateAll(apps, install_list, "INSTALLING")
             /\ IF Len(install_list) # 1
                THEN /\ Invoked(t, g_task_return_error(task, NotSupported))
                     /\ UNCHANGED calls
                ELSE /\ Invoked(t, Sent(g_task_set_task_data(task, install_list),
                                        fdroid_proxy, "Install", <<package_name>>))
                     /\ calls' = g_dbus_proxy_call(calls, fdroid_proxy, t,
                                                   "Install", <<package_name>>)
     /\ UNCHANGED <<fdroid_proxy, updates_changed, caches, plugin_cache>>

\* a faulty variant: the installed app is added to the installed cache
install_app_cb_caching(c, error) ==
  LET task == Got(c, error, error = NoError)
      install_list == task.task_data
      app == install_list[1]
  IN /\ IsReply(c, "Install")
     /\ IF error # NoError
        THEN /\ apps' = gs_app_set_state_recover(apps, app)
             /\ Replied(c,
                        g_task_return_error(task,
                          g_dbus_error_strip_remote_error(error)))
             /\ UNCHANGED <<updates_changed, caches>>
        ELSE /\ apps' = gs_app_set_state(apps, app, "INSTALLED")
             /\ updates_changed' = gs_plugin_updates_changed(updates_changed)
             /\ installed_apps' = Append(installed_apps, app)
             /\ UNCHANGED updatable_apps
             /\ Replied(c, g_task_return_boolean(task, TRUE))
     /\ UNCHANGED <<fdroid_proxy, plugin_cache, nops>>

fdroid_install_app_cb(c, error) ==
  LET task == Got(c, error, error = NoError)
      install_list == task.task_data
      app == install_list[1]
  IN /\ IsReply(c, "Install")
     /\ IF Len(install_list) = 0
        THEN /\ Replied(c, g_task_return_error(task, Failed))
             /\ UNCHANGED <<apps, updates_changed>>
        ELSE IF error # NoError
        THEN /\ apps' = gs_app_set_state_recover(apps, app)
             /\ Replied(c,
                        g_task_return_error(task,
                          g_dbus_error_strip_remote_error(error)))
             /\ UNCHANGED updates_changed
        ELSE /\ apps' = gs_app_set_state(apps, app, "INSTALLED")
             /\ updates_changed' = gs_plugin_updates_changed(updates_changed)
             /\ Replied(c, g_task_return_boolean(task, TRUE))
     /\ UNCHANGED <<fdroid_proxy, caches, plugin_cache, nops>>

(***************************************************************************)
(* removeRepository: gs_plugin_android_remove_repository_async and         *)
(* fdroid_remove_repository_cb.                                            *)
(***************************************************************************)
gs_plugin_android_remove_repository_async(t, repo) ==
  LET task == g_task_set_task_data(g_task_new("remove_repository", <<repo>>, {}),
                                   <<repo>>)
  IN /\ gs_app_get_kind(repo) = "REPOSITORY"
     /\ apps' = gs_app_set_state(apps, repo, "REMOVING")
     /\ Invoked(t, Sent(task, fdroid_proxy, "RemoveRepository",
                        <<gs_app_get_id(repo)>>))
     /\ calls' = g_dbus_proxy_call(calls, fdroid_proxy, t, "RemoveRepository",
                                   <<gs_app_get_id(repo)>>)
     /\ UNCHANGED <<fdroid_proxy, updates_changed, caches, plugin_cache>>

\* a faulty variant: a cancelled call is taken for a successful one
remove_repository_cb_cancel_as_success(c, error) ==
  LET task == Got(c, error, error = NoError)
      app == task.task_data[1]
  IN /\ IsReply(c, "RemoveRepository")
     /\ IF error = RemoteError
        THEN /\ apps' = gs_app_set_state_recover(apps, app)
             /\ Replied(c,
                        g_task_return_error(task,
                          g_dbus_error_strip_remote_error(error)))
        ELSE /\ apps' = gs_app_set_state(apps, app, "AVAILABLE")
             /\ Replied(c, g_task_return_boolean(task, TRUE))
     /\ UNCHANGED <<fdroid_proxy, updates_changed, caches, plugin_cache, nops>>

fdroid_remove_repository_cb(c, error) ==
  LET task == Got(c, error, error = NoError)
      app == task.task_data[1]
  IN /\ IsReply(c, "RemoveRepository")
     /\ IF error # NoError
        THEN /\ apps' = gs_app_set_state_recover(apps, app)
             /\ Replied(c,
                        g_task_return_error(task,
                          g_dbus_error_strip_remote_error(error)))
        ELSE /\ apps' = gs_app_set_state(apps, app, "AVAILABLE")
             /\ Replied(c, g_task_return_boolean(task, TRUE))
     /\ UNCHANGED <<fdroid_proxy, updates_changed, caches, plugin_cache, nops>>

(***************************************************************************)
(* uninstallApps: gs_plugin_android_uninstall_apps_async and               *)
(* fdroid_uninstall_app_cb.                                                *)
(***************************************************************************)
\* the loop of lines 782-795: the entities that pass the ownership filter
UninstallList(list) ==
  SelectSeq(list, LAMBDA a : gs_app_has_management_plugin(a))

gs_plugin_android_uninstall_apps_async(t, list) ==
  LET task == g_task_new("uninstall", list, {})
      uninstall_list == UninstallList(list)
      package_name == gs_app_get_metadata_item(uninstall_list[1])
  IN /\ \A i \in 1..Len(list) : gs_app_get_kind(list[i]) # "REPOSITORY"
     /\ apps' = SetStateAll(apps, uninstall_list, "REMOVING")
     /\ IF Len(uninstall_list) # 1
        THEN /\ Invoked(t, g_task_return_error(task, NotSupported))
             /\ UNCHANGED calls
        ELSE /\ Invoked(t, Sent(g_task_set_task_data(task, <<uninstall_list[1]>>),
                                fdroid_proxy, "UninstallApp", <<package_name>>))
             /\ calls' = g_dbus_proxy_call(calls, fdroid_proxy, t,
                                           "UninstallApp", <<package_name>>)
     /\ UNCHANGED <<fdroid_proxy, updates_changed, caches, plugin_cache>>

\* a faulty variant: a failure restores the state the app had at the call
uninstall_app_cb_restoring_pre_call(c, error) ==
  LET task == Got(c, error, error = NoError)
      app == task.task_data[1]
  IN /\ IsReply(c, "UninstallApp")
     /\ IF error # NoError
        THEN /\ apps' = [apps EXCEPT ![app].state = task.pre[app]]
             /\ Replied(c,
                        g_task_return_error(task,
                          g_dbus_error_strip_remote_error(error)))
             /\ UNCHANGED updates_changed
        ELSE /\ apps' = gs_app_set_state(apps, app, "AVAILABLE")
             /\ updates_changed' = gs_plugin_updates_changed(updates_changed)
             /\ Replied(c, g_task_return_boolean(task, TRUE))
     /\ UNCHANGED <<fdroid_proxy, caches, plugin_cache, nops>>

fdroid_uninstall_app_cb(c, error) ==
  LET task == Got(c, error, error = NoError)
      app == task.task_data[1]
  IN /\ IsReply(c, "UninstallApp")
     /\ IF error # NoError
        THEN /\ apps' = gs_app_set_state_recover(apps, app)
             /\ Replied(c,
                        g_task_return_error(task,
                          g_dbus_error_strip_remote_error(error)))
             /\ UNCHANGED updates_changed
        ELSE /\ apps' = gs_app_set_state(apps, app, "AVAILABLE")
             /\ updates_changed' = gs_plugin_updates_changed(updates_changed)
             /\ Replied(c, g_task_return_boolean(task, TRUE))
     /\ UNCHANGED <<fdroid_proxy, caches, plugin_cache, nops>>

(***************************************************************************)
(* updateApps: gs_plugin_android_update_apps_async and                     *)
(* fdroid_upgrade_packages_cb.                                             *)
(***************************************************************************)
UpdateFlags == {{}, {"NO_APPLY"}}

\* a faulty variant: the wrong flag is tested
NoDownload(flags) == "NO_DOWNLOAD" \in flags

\* line 913: flags & GS_PLUGIN_UPDATE_APPS_FLAGS_NO_APPLY
NoApply(flags) == "NO_APPLY" \in flags

\* a faulty variant: the package-name filter is missing
WholeList(list) == list

\* the loop of lines 921-929: the entities whose package name goes into the
\* "as" builder and whose state is set to Installing
UpgradeList(list) ==
  SelectSeq(list, LAMBDA a : gs_app_get_metadata_item(a) # NULL)

PackageNames(l) == [i \in 1..Len(l) |-> gs_app_get_metadata_item(l[i])]

gs_plugin_android_update_apps_async(t, list, flags) ==
  LET task == g_task_new("update", list, flags)
      builder == PackageNames(UpgradeList(list))
  IN /\ IF NoApply(flags)
        THEN /\ Invoked(t, g_task_return_boolean(task, TRUE))
             /\ UNCHANGED <<apps, calls>>
        ELSE /\ apps' = SetStateAll(apps, UpgradeList(list), "INSTALLING")
             /\ Invoked(t, Sent(g_task_set_task_data(task, list), fdroid_proxy,
                                "UpgradePackages", builder))
             /\ calls' = g_dbus_proxy_call(calls, fdroid_proxy, t,
                                           "UpgradePackages", builder)
     /\ UNCHANGED <<fdroid_proxy, updates_changed, caches, plugin_cache>>

\* a faulty variant: the "success" boolean of the reply is ignored
upgrade_packages_cb_ignoring_success(c, error, success) ==
  LET task == Got(c, error, success)
      list == task.task_data
  IN /\ IsReply(c, "UpgradePackages")
     /\ IF error # NoError
        THEN /\ Replied(c,
                        g_task_return_error(task,
                          g_dbus_error_strip_remote_error(error)))
             /\ UNCHANGED <<apps, updates_changed>>
        ELSE /\ apps' = SetStateAll(apps, list, "INSTALLED")
             /\ updates_changed' = gs_plugin_updates_changed(updates_changed)
             /\ Replied(c, g_task_return_boolean(task, TRUE))
     /\ UNCHANGED <<fdroid_proxy, caches, plugin_cache, nops>>

fdroid_upgrade_packages_cb(c, error, success) ==
  LET task == Got(c, error, success)
      list == task.task_data
  IN /\ IsReply(c, "UpgradePackages")
     /\ IF error # NoError
        THEN /\ Replied(c,
                        g_task_return_error(task,
                          g_dbus_error_strip_remote_error(error)))
             /\ UNCHANGED <<apps, updates_changed>>
        ELSE IF ~success
        THEN /\ Replied(c, g_task_return_error(task, Failed))
             /\ UNCHANGED <<apps, updates_changed>>
        ELSE /\ apps' = SetStateAll(apps, list, "INSTALLED")
             /\ updates_changed' = gs_plugin_updates_changed(updates_changed)
             /\ Replied(c, g_task_return_boolean(task, TRUE))
     /\ UNCHANGED <<fdroid_proxy, caches, plugin_cache, nops>>

(***************************************************************************)
(* refreshMetadata: gs_plugin_android_refresh_metadata_async and           *)
(* fdroid_update_cache_cb.                                                 *)
(***************************************************************************)
gs_plugin_android_refresh_metadata_async(t) ==
  /\ Invoked(t, Sent(g_task_new("refresh_metadata", <<>>, {}), fdroid_proxy,
                     "UpdateCache", <<>>))
  /\ calls' = g_dbus_proxy_call(calls, fdroid_proxy, t, "UpdateCache", <<>>)
  /\ UNCHANGED <<apps, fdroid_proxy, updates_changed, caches, plugin_cache>>

fdroid_update_cache_cb(c, error, success) ==
  LET task == Got(c, error, success)
  IN /\ IsReply(c, "UpdateCache")
     /\ IF error # NoError
        THEN /\ Replied(c, g_task_return_error(task, error))
             /\ UNCHANGED updates_changed
        ELSE /\ updates_changed' = gs_plugin_updates_changed(updates_changed)
             /\ Replied(c, g_task_return_boolean(task, success))
     /\ UNCHANGED <<apps, fdroid_proxy, caches, plugin_cache, nops>>

(***************************************************************************)
(* listApps: gs_plugin_android_list_apps_async and its four callbacks.     *)
(* The entities a listing creates are new GsApp objects; they are modelled *)
(* as records of the fields the callbacks set.                             *)
(***************************************************************************)
Tristate == {"UNSET", "TRUE", "FALSE"}

\* a GsAppQuery: the four properties the plugin reads, and how many other
\* properties are set; null marks a NULL query
Queries ==
  [null : {FALSE}, is_source : Tristate, is_installed : Tristate,
   is_for_update : Tristate, keywords : {NULL, "kw"}, others : {0, 1}]
  \cup {[null |-> TRUE, is_source |-> "UNSET", is_installed |-> "UNSET",
         is_for_update |-> "UNSET", keywords |-> NULL, others |-> 0]}

\* a faulty variant: only the four properties the plugin reads are counted
PropertiesRead(q) ==
  IF q.null THEN 0
  ELSE (IF q.is_source # "UNSET" THEN 1 ELSE 0)
       + (IF q.is_installed # "UNSET" THEN 1 ELSE 0)
       + (IF q.is_for_update # "UNSET" THEN 1 ELSE 0)
       + (IF q.keywords # NULL THEN 1 ELSE 0)

\* gs_app_query_get_n_properties_set (0 for a NULL query)
gs_app_query_get_n_properties_set(q) ==
  IF q.null THEN 0
  ELSE (IF q.is_source # "UNSET" THEN 1 ELSE 0)
       + (IF q.is_installed # "UNSET" THEN 1 ELSE 0)
       + (IF q.is_for_update # "UNSET" THEN 1 ELSE 0)
       + (IF q.keywords # NULL THEN 1 ELSE 0)
       + q.others

\* the remote method lines 501-547 dispatch to; NULL when none
ListMethod(q) ==
  IF \/ gs_app_query_get_n_properties_set(q) # 1
     \/ q.is_source = "FALSE"
     \/ q.is_installed = "FALSE"
     \/ q.is_for_update = "FALSE"
  THEN NULL
  ELSE IF q.is_source = "TRUE" THEN "GetRepositories"
  ELSE IF q.is_installed = "TRUE" THEN "GetInstalledApps"
  ELSE IF q.is_for_update = "TRUE" THEN "GetUpgradable"
  ELSE IF q.keywords # NULL THEN "Search"
  ELSE NULL

gs_plugin_android_list_apps_async(t, query) ==
  LET task == [g_task_new("list_apps", <<>>, {}) EXCEPT !.query = <<query>>]
      method == ListMethod(query)
      args == IF method = "Search" THEN <<query.keywords>> ELSE <<>>
  IN /\ IF method = NULL
        THEN /\ Invoked(t, g_task_return_error(task, NotSupported))
             /\ UNCHANGED calls
        ELSE /\ Invoked(t, Sent(task, fdroid_proxy, method, args))
             /\ calls' = g_dbus_proxy_call(calls, fdroid_proxy, t, method, args)
     /\ UNCHANGED <<apps, fdroid_proxy, updates_changed, caches, plugin_cache>>

\* a faulty variant: the source is the package name, not the id
NewAppSourcePackage(id, kind, package_name, state, icon) ==
  [id |-> id, kind |-> kind, package_name |-> package_name,
   source |-> package_name, state |-> state, icon |-> icon, owned |-> TRUE]

\* a new GsApp as a listing callback fills it in
NewApp(id, kind, package_name, state, icon) ==
  [id |-> id, kind |-> kind, package_name |-> package_name, source |-> id,
   state |-> state, icon |-> icon, owned |-> TRUE]

\* a faulty variant: an app equal to one already held is refused
AddOnce(l, app) ==
  IF \E i \in 1..Len(l) : l[i] = app THEN l ELSE Append(l, app)

\* gs_app_list_add of a newly created app: appended (a list refuses only an
\* app object it already holds)
gs_app_list_add(l, app) == Append(l, app)

\* the entries of a field-map reply (GetInstalledApps, GetUpgradable)
FieldMaps ==
  {[packageName |-> "pkg.a", id |-> "pkg.a"],
   [packageName |-> "pkg.b", id |-> "id.b"],
   [packageName |-> NULL, id |-> "pkg.c"],
   [packageName |-> "pkg.d", id |-> NULL]}

RECURSIVE SeqsUpTo(_, _)
SeqsUpTo(S, n) ==
  IF n = 0 THEN {<<>>}
  ELSE LET shorter == SeqsUpTo(S, n - 1)
       IN shorter \cup {Append(l, x) : l \in {m \in shorter : Len(m) = n - 1},
                                        x \in S}

FieldMapReplies == SeqsUpTo(FieldMaps, MaxReplyLen)

\* lines 302-342: the entities decoded from a GetInstalledApps reply
RECURSIVE DecodeInstalled(_)
DecodeInstalled(reply) ==
  IF reply = <<>> THEN <<>>
  ELSE LET e == Head(reply)
           rest == DecodeInstalled(Tail(reply))
       IN IF e.packageName # NULL
          THEN <<NewApp(e.id, "DESKTOP_APP", e.packageName, "INSTALLED", FALSE)>>
               \o rest
          ELSE rest

\* lines 211-269: the entities decoded from a GetUpgradable reply (the
\* package-name metadata is set from id, line 245)
RECURSIVE DecodeUpgradable(_)
DecodeUpgradable(reply) ==
  IF reply = <<>> THEN <<>>
  ELSE LET e == Head(reply)
           rest == DecodeUpgradable(Tail(reply))
       IN IF e.packageName # NULL
          THEN <<NewApp(e.id, "DESKTOP_APP", e.id, "UPDATABLE", FALSE)>> \o rest
          ELSE rest

\* a faulty variant: the list is not cleared
KeepAll(l) == l

\* gs_app_list_remove_all (self->installed_apps)
gs_app_list_remove_all(l) == <<>>

RECURSIVE AddAll(_, _)
AddAll(l, new) ==
  IF new = <<>> THEN l ELSE AddAll(gs_app_list_add(l, Head(new)), Tail(new))

fdroid_get_installed_apps_cb(c, error, reply) ==
  LET task == GotReply(c, error, reply)
      list == DecodeInstalled(reply)
  IN /\ IsReply(c, "GetInstalledApps")
     /\ IF error # NoError
        THEN /\ Replied(c,
                        g_task_return_error(task,
                          g_dbus_error_strip_remote_error(error)))
             /\ UNCHANGED installed_apps
        ELSE /\ installed_apps' =
               AddAll(gs_app_list_remove_all(installed_apps), list)
             /\ Replied(c, g_task_return_pointer(task, list))
     /\ UNCHANGED <<apps, fdroid_proxy, updates_changed, updatable_apps,
                    plugin_cache, nops>>

fdroid_get_upgradable_cb(c, error, reply) ==
  LET task == GotReply(c, error, reply)
      list == DecodeUpgradable(reply)
  IN /\ IsReply(c, "GetUpgradable")
     /\ IF error # NoError
        THEN /\ Replied(c,
                        g_task_return_error(task,
                          g_dbus_error_strip_remote_error(error)))
             /\ UNCHANGED updatable_apps
        ELSE /\ updatable_apps' = AddAll(updatable_apps, list)
             /\ Replied(c, g_task_return_pointer(task, list))
     /\ UNCHANGED <<apps, fdroid_proxy, updates_changed, installed_apps,
                    plugin_cache, nops>>

\* a GetRepositories reply: (name, url) pairs
RepoPairs == {<<"repo1", "url1">>, <<"repo2", "url1">>, <<"repo2", "url2">>}

RepoReplies == SeqsUpTo(RepoPairs, MaxRepoLen)

\* lines 169-179: a new GsApp for a repository; its url is kept as the
\* homepage url and the "fdroid::repo-url" metadata, and it has no source
NewRepo(repo_name, repo_url) ==
  [id |-> repo_name, kind |-> "REPOSITORY", package_name |-> NULL,
   source |-> NULL, state |-> "INSTALLED", icon |-> FALSE, owned |-> TRUE,
   url |-> repo_url]

\* lines 164-183: the Repository entities decoded from the reply
DecodeRepositories(reply) ==
  [i \in 1..Len(reply) |-> NewRepo(reply[i][1], reply[i][2])]

\* a faulty variant: an entry already cached under the key is kept
CacheKeepFirst(cache, key, app) ==
  IF \E e \in cache : e.key = key THEN cache
  ELSE cache \cup {[key |-> key, app |-> app]}

\* gs_plugin_cache_add (plugin, key, app): a later entry replaces an earlier
\* one with the same key
gs_plugin_cache_add(cache, key, app) ==
  {e \in cache : e.key # key} \cup {[key |-> key, app |-> app]}

\* line 181, for every repository of the reply in turn
RECURSIVE CacheAddAll(_, _)
CacheAddAll(cache, new) ==
  IF new = <<>> THEN cache
  ELSE CacheAddAll(gs_plugin_cache_add(cache, Head(new).url, Head(new)),
                   Tail(new))

fdroid_get_repositories_cb(c, error, reply) ==
  LET task == GotReply(c, error, reply)
      list == DecodeRepositories(reply)
  IN /\ IsReply(c, "GetRepositories")
     /\ IF error # NoError
        THEN /\ Replied(c,
                        g_task_return_error(task,
                          g_dbus_error_strip_remote_error(error)))
             /\ UNCHANGED plugin_cache
        ELSE /\ plugin_cache' = CacheAddAll(plugin_cache, list)
             /\ Replied(c, g_task_return_pointer(task, list))
     /\ UNCHANGED <<apps, fdroid_proxy, updates_changed, caches, nops>>

(***************************************************************************)
(* Search replies.  A reply is a string holding a JSON document: doc says  *)
(* whether it parses and what its root is; elems are the objects of a root *)
(* array.  An icon URL is the pair <<scheme prefix, rest>>.                *)
(***************************************************************************)
IconUrls == {<<"http://", "h/icon.png">>, <<"https://", "h/icon.png">>,
             <<"ftp://", "example.com/icon.png">>}

NoUrl == <<>>

SearchElems ==
  [id : {"pkg.a", "x.y.z"}, package : {TRUE}, icon_url : IconUrls \cup {NoUrl}]
  \cup [id : {"pkg.a", "x.y.z"}, package : {FALSE}, icon_url : {NoUrl}]

\* a reply that is no JSON document
NoDoc == [doc |-> "invalid", elems |-> <<>>]

SearchDocs ==
  {NoDoc, [doc |-> "object", elems |-> <<>>]}
  \cup {[doc |-> "array", elems |-> l] : l \in SeqsUpTo(SearchElems, MaxReplyLen)}

g_str_has_prefix(url, prefix) == url # NoUrl /\ url[1] = prefix

\* lines 411-418: is the id the package-name metadata of an installed app
IsInstalled(installed, id) ==
  \E j \in 1..Len(installed) : installed[j].package_name = id

\* lines 380-452 for one element; icon_url is read uninitialised when the
\* element has no package object, so it is then whatever the stack holds
DecodeSearchElem(installed, e, garbage) ==
  LET icon_url == IF e.package THEN e.icon_url ELSE garbage
      is_installed == e.package /\ IsInstalled(installed, e.id)
      icon == /\ icon_url # NoUrl
              /\ (g_str_has_prefix(icon_url, "http://")
                  \/ g_str_has_prefix(icon_url, "https://"))
  IN NewApp(e.id, "DESKTOP_APP", e.id,
            IF is_installed THEN "INSTALLED" ELSE "AVAILABLE", icon)

DecodeError == [code |-> "JSON_PARSER", enveloped |-> FALSE]

\* json_node_get_array of a root that is no array is NULL, and
\* json_array_get_length (NULL) is 0: the loop runs over no element
fdroid_search_cb(c, error, reply, garbage) ==
  LET task == GotReply(c, error, reply)
      array == IF reply.doc = "array" THEN reply.elems ELSE <<>>
      list == [i \in 1..Len(array) |->
                 DecodeSearchElem(installed_apps, array[i], garbage)]
  IN /\ IsReply(c, "Search")
     /\ IF error # NoError
        THEN Replied(c,
                     g_task_return_error(task,
                       g_dbus_error_strip_remote_error(error)))
        ELSE IF reply.doc = "invalid"
        THEN Replied(c, g_task_return_error(task, DecodeError))
        ELSE Replied(c, g_task_return_pointer(task, list))
     /\ UNCHANGED <<apps, fdroid_proxy, updates_changed, caches, plugin_cache,
                    nops>>

(***************************************************************************)
(* The *_finish functions: the host takes the result of a completed task   *)
(* (g_task_propagate_boolean / g_task_propagate_pointer) and drops it.     *)
(***************************************************************************)
g_task_propagate(t) ==
  /\ tasks[t].status = "returned"
  /\ tasks' = [tasks EXCEPT ![t] = NoTask]
  /\ UNCHANGED <<apps, fdroid_proxy, calls, updates_changed, caches, plugin_cache, nops>>

(***************************************************************************)
(* Specifications.  Spec: the host may start an operation whenever a task  *)
(* slot is free, so operations overlap.  SpecSeq: the host starts an       *)
(* operation only when the previous one has completed and been finished.   *)
(***************************************************************************)
Replies == {NoError} \cup CallErrors

\* the slot a new task takes: the lowest free one
FreeSlot(t) ==
  /\ tasks[t] = NoTask
  /\ \A u \in Slots : u < t => tasks[u] # NoTask

Idle == \A t \in Slots : tasks[t] = NoTask

\* an entity the host can hand to the plugin: one owned by the plugin was
\* created by a listing callback, so none exists before a proxy is held
Exists(e) == gs_app_has_management_plugin(e) => fdroid_proxy # NoProxy

HostLists == {list \in AppLists : \A i \in 1..Len(list) : Exists(list[i])}

Invoke(t) ==
  \/ gs_plugin_android_setup_async(t)
  \/ \E list \in HostLists, flags \in InstallFlags :
       gs_plugin_android_install_apps_async(t, list, flags)
  \/ \E list \in HostLists : gs_plugin_android_uninstall_apps_async(t, list)
  \/ \E repo \in Repos :
       Exists(repo) /\ gs_plugin_android_remove_repository_async(t, repo)
  \/ \E list \in HostLists, flags \in UpdateFlags :
       gs_plugin_android_update_apps_async(t, list, flags)
  \/ gs_plugin_android_refresh_metadata_async(t)
  \/ \E query \in Queries : gs_plugin_android_list_apps_async(t, query)

\* the calls in flight of a method
CallsOf(method) == {c \in calls : c.method = method}

\* what a callback can read of the answer: a reply when the call succeeded
Answers(error, replies) == IF error = NoError THEN replies ELSE {<<>>}

\* what an uninitialised icon_url can hold; it is read only for an element
\* without a package object
Garbage(error, reply) ==
  IF /\ error = NoError
     /\ \E i \in 1..Len(reply.elems) : ~reply.elems[i].package
  THEN IconUrls \cup {NoUrl}
  ELSE {NoUrl}

Complete ==
  \/ \E c \in CallsOf("g_dbus_proxy_new_for_bus") :
       \E error \in {NoError} \cup SetupErrors : fdroid_proxy_setup_cb(c, error)
  \/ \E c \in CallsOf("Install"), error \in Replies :
       fdroid_install_app_cb(c, error)
  \/ \E c \in CallsOf("RemoveRepository"), error \in Replies :
       fdroid_remove_repository_cb(c, error)
  \/ \E c \in CallsOf("UninstallApp"), error \in Replies :
       fdroid_uninstall_app_cb(c, error)
  \/ \E c \in CallsOf("UpgradePackages"), error \in Replies,
         success \in BOOLEAN :
       fdroid_upgrade_packages_cb(c, error, success)
  \/ \E c \in CallsOf("UpdateCache"), error \in Replies, success \in BOOLEAN :
       fdroid_update_cache_cb(c, error, success)
  \/ \E c \in CallsOf("GetInstalledApps"), error \in Replies :
       \E reply \in Answers(error, FieldMapReplies) :
         fdroid_get_installed_apps_cb(c, error, reply)
  \/ \E c \in CallsOf("GetUpgradable"), error \in Replies :
       \E reply \in Answers(error, FieldMapReplies) :
         fdroid_get_upgradable_cb(c, error, reply)
  \/ \E c \in CallsOf("GetRepositories"), error \in Replies :
       \E reply \in Answers(error, RepoReplies) :
         fdroid_get_repositories_cb(c, error, reply)
  \/ \E c \in CallsOf("Search"), error \in Replies :
       \E reply \in IF error = NoError THEN SearchDocs ELSE {NoDoc} :
         \E garbage \in Garbage(error, reply) :
           fdroid_search_cb(c, error, reply, garbage)
  \/ \E t \in Slots : g_task_propagate(t)

Next ==
  \/ \E t \in Slots : FreeSlot(t) /\ Invoke(t)
  \/ Complete

Spec == Init /\ [][Next]_vars

NextSeq ==
  \/ Idle /\ Invoke(1)
  \/ Complete

SpecSeq == Init /\ [][NextSeq]_vars

\* the plugin as constructed: gs_plugin_android_init leaves fdroid_proxy NULL
\* until a setup succeeds
InitConstructed ==
  /\ apps = [e \in Entities |-> [state |-> InitialState[e],
                                 state_recover |-> InitialState[e]]]
  /\ fdroid_proxy = NoProxy
  /\ tasks = [t \in Slots |-> NoTask]
  /\ calls = {}
  /\ updates_changed = 0
  /\ installed_apps = <<>>
  /\ updatable_apps = <<>>
  /\ plugin_cache = {}
  /\ nops = 0

\* the main loop runs the callback of every answered call and the host
\* finishes every completed task; every issued call is answered
SpecLive == InitConstructed /\ [][NextSeq]_vars /\ WF_vars(Complete)

TypeOK ==
  /\ \A e \in Entities : apps[e].state \in AppStates
                         /\ apps[e].state_recover \in StableStates
  /\ fdroid_proxy \in {NoProxy} \cup {<<n>> : n \in 0..MaxOps}
  /\ updates_changed \in 0..MaxOps
  /\ nops \in 0..MaxOps

(***************************************************************************)
(* Properties of the mutating operations.  An invocation is read off its   *)
(* task: what it was given (list, flags), what held at the call (pre,      *)
(* pre_changed), the calls it issued (sent), what its callback was handed  *)
(* (res) and how it completed (status, value, error).  Under SpecSeq no    *)
(* other handler runs between a task's completion and its propagation, so  *)
(* a returned task is seen with the state its completion left.             *)
(***************************************************************************)
ListOf(task) == {task.list[i] : i \in 1..Len(task.list)}

HasPackageName(e) == gs_app_get_metadata_item(e) # NULL

\* the entities of a list that have a package name, in list order
Named(l) == SelectSeq(l, HasPackageName)

NamesOf(l) == [i \in 1..Len(l) |-> gs_app_get_metadata_item(l[i])]

\* how many entities of an install or uninstall list are left by its filter
Kept(task) ==
  Cardinality({e \in ListOf(task) :
     /\ gs_app_has_management_plugin(e)
     /\ task.kind = "install" => HasPackageName(e)})

Returned(task, kind) == task.kind = kind /\ task.status = "returned"

\* the callback of the task was handed an error
RemoteFailed(task) == task.res.error # NoError

\* the error of the callback, out of its D-Bus envelope
Unwrapped(task) == [code |-> task.res.error.code, enveloped |-> FALSE]

\* the entity is in no transient state, and in its state at the call unless
\* that state was already a transient one
RolledBack(task, e) ==
  /\ apps[e].state = apps[e].state_recover
  /\ task.pre[e] \in StableStates => apps[e].state = task.pre[e]

\* C1: an installApps or uninstallApps whose filtered list has not exactly one
\* entity completes with the unsupported-operation error, issues no remote
\* call and leaves every entity of its list in the state it had at the call.
C1_RejectedBatchUntouched ==
  \A t \in Slots :
    LET task == tasks[t]
    IN (/\ task.kind \in {"install", "uninstall"}
        /\ task.status = "returned"
        /\ Kept(task) # 1)
       => /\ task.error = NotSupported
          /\ task.sent = <<>>
          /\ \A e \in ListOf(task) : apps[e].state = task.pre[e]

\* C2: when an install, uninstall or remove-repository invocation has
\* completed with an error, every entity of its list is in no transient
\* state and in the state it had at the call.
C2_ErrorLeavesPreCallState ==
  \A t \in Slots :
    LET task == tasks[t]
    IN (/\ task.kind \in {"install", "uninstall", "remove_repository"}
        /\ task.status = "returned"
        /\ task.error # NoError)
       => \A e \in ListOf(task) : /\ apps[e].state \notin TransientStates
                                  /\ apps[e].state = task.pre[e]

\* C3 (as amended): when the Install call of a single-target install fails,
\* the target is afterwards in the last non-transient state it held (its
\* state at the call, unless it was already Installing or Removing then),
\* the completion carries the remote error out of its envelope, and no
\* updates-changed signal was emitted.
C3_InstallFailureRollsBack ==
  \A t \in Slots :
    LET task == tasks[t]
    IN (Returned(task, "install") /\ task.sent # <<>> /\ RemoteFailed(task))
       => /\ RolledBack(task, task.task_data[1])
          /\ task.error = Unwrapped(task)
          /\ task.value = FALSE
          /\ updates_changed = task.pre_changed

\* no entity but e is in a transient state: no rejected batch of two or more
\* (C1) has left its entities Installing or Removing
OnlyTransient(e) ==
  \A o \in Entities \ {e} : apps[o].state \notin TransientStates

\* C3 as stated: when the Install call of a single-target install fails, the
\* target's state equals its state before installApps was invoked, the
\* completion carries the remote error out of its envelope, and no
\* updates-changed signal was emitted.  Taken where no other entity is in a
\* transient state, it fails for a target that a failed updateApps left
\* Installing.
C3_InstallFailureRestoresPreCall ==
  \A t \in Slots :
    LET task == tasks[t]
    IN (/\ Returned(task, "install") /\ task.sent # <<>> /\ RemoteFailed(task)
        /\ OnlyTransient(task.task_data[1]))
       => /\ apps[task.task_data[1]].state = task.pre[task.task_data[1]]
          /\ task.error = Unwrapped(task)
          /\ updates_changed = task.pre_changed

\* an install of A, Available at the call, has failed with a remote error
C3_Witness ==
  \E t \in Slots :
    /\ Returned(tasks[t], "install")
    /\ tasks[t].task_data = <<"A">>
    /\ tasks[t].pre["A"] = "AVAILABLE"
    /\ tasks[t].res.error = RemoteError
    /\ tasks[t].error.code = "REMOTE"

\* C4: a single-target install issues one Install call with the target's
\* package name; while the call is in flight the target is Installing; when
\* the call has succeeded the target is Installed, exactly one
\* updates-changed signal was emitted and the completion is a success.
C4_InstallingThenInstalled ==
  \A t \in Slots :
    LET task == tasks[t]
        app == task.task_data[1]
    IN (task.kind = "install" /\ task.sent # <<>>)
       => /\ Kept(task) = 1
          /\ task.sent = <<[method |-> "Install",
                            args |-> <<gs_app_get_metadata_item(app)>>]>>
          /\ task.status = "pending"
               => /\ apps[app].state = "INSTALLING"
                  /\ \E c \in calls : c.task = t /\ c.method = "Install"
          /\ (task.status = "returned" /\ ~RemoteFailed(task))
               => /\ apps[app].state = "INSTALLED"
                  /\ updates_changed = task.pre_changed + 1
                  /\ task.value = TRUE
                  /\ task.error = NoError

\* an install of A, Available at the call, has succeeded
C4_Witness ==
  \E t \in Slots :
    /\ Returned(tasks[t], "install")
    /\ tasks[t].task_data = <<"A">>
    /\ tasks[t].pre["A"] = "AVAILABLE"
    /\ tasks[t].value = TRUE
    /\ apps["A"].state = "INSTALLED"

\* C5 (as amended): a single-target uninstall issues one UninstallApp call;
\* while it is in flight the target is Removing; when it has succeeded the
\* target is Available and one updates-changed signal was emitted; when it
\* has failed the target is in the last non-transient state it held (its
\* state at the call, unless it was already Installing or Removing then)
\* and the completion carries the error.
C5_UninstallTransitions ==
  \A t \in Slots :
    LET task == tasks[t]
        app == task.task_data[1]
    IN (task.kind = "uninstall" /\ task.sent # <<>>)
       => /\ Kept(task) = 1
          /\ Len(task.sent) = 1
          /\ task.sent[1].method = "UninstallApp"
          /\ task.status = "pending"
               => /\ apps[app].state = "REMOVING"
                  /\ \E c \in calls : c.task = t /\ c.method = "UninstallApp"
          /\ (task.status = "returned" /\ ~RemoteFailed(task))
               => /\ apps[app].state = "AVAILABLE"
                  /\ updates_changed = task.pre_changed + 1
                  /\ task.value = TRUE
          /\ (task.status = "returned" /\ RemoteFailed(task))
               => /\ RolledBack(task, app)
                  /\ task.error = Unwrapped(task)
                  /\ updates_changed = task.pre_changed

\* C5 as stated, in its failure case: when the UninstallApp call of a
\* single-target uninstall fails, the target's state is the state it had
\* before uninstallApps was invoked and the error is surfaced.  Taken where
\* no other entity is in a transient state, it fails for a target that a
\* failed updateApps left Installing.
C5_UninstallFailureRestoresPreCall ==
  \A t \in Slots :
    LET task == tasks[t]
        app == task.task_data[1]
    IN (/\ Returned(task, "uninstall") /\ task.sent # <<>> /\ RemoteFailed(task)
        /\ OnlyTransient(app))
       => /\ apps[app].state = task.pre[app]
          /\ task.error = Unwrapped(task)

\* an uninstall of B, Installed at the call, has failed and B is Installed
C5_Witness ==
  \E t \in Slots :
    /\ Returned(tasks[t], "uninstall")
    /\ tasks[t].task_data = <<"B">>
    /\ tasks[t].pre["B"] = "INSTALLED"
    /\ RemoteFailed(tasks[t])
    /\ apps["B"].state = "INSTALLED"

\* C6: removeRepository issues one RemoveRepository call with the
\* repository's id; while it is in flight the repository is Removing; when
\* it has succeeded the repository is Available and no updates-changed
\* signal was emitted; when it has failed the repository is in the state it
\* had at the call and the completion carries the error.
C6_RemoveRepositoryTransitions ==
  \A t \in Slots :
    LET task == tasks[t]
        repo == task.list[1]
    IN task.kind = "remove_repository"
       => /\ task.sent = <<[method |-> "RemoveRepository", args |-> <<repo>>]>>
          /\ task.status = "pending"
               => /\ apps[repo].state = "REMOVING"
                  /\ \E c \in calls :
                       c.task = t /\ c.method = "RemoveRepository"
          /\ (task.status = "returned" /\ ~RemoteFailed(task))
               => /\ apps[repo].state = "AVAILABLE"
                  /\ task.value = TRUE
          /\ (task.status = "returned" /\ RemoteFailed(task))
               => /\ apps[repo].state = task.pre[repo]
                  /\ task.error = Unwrapped(task)
          /\ updates_changed = task.pre_changed

\* a removal of R, Installed at the call, has failed and R is Installed
C6_Witness ==
  \E t \in Slots :
    /\ Returned(tasks[t], "remove_repository")
    /\ tasks[t].pre["R"] = "INSTALLED"
    /\ tasks[t].res.error = RemoteError
    /\ apps["R"].state = "INSTALLED"

\* C7: updateApps without the no-apply flag issues exactly one
\* UpgradePackages call, with the package names of exactly the entities of
\* its list that have one; while the call is in flight exactly those are
\* Installing (the others are as at the call); when the call has succeeded
\* every one of them is Installed and one updates-changed signal was
\* emitted.
C7_UpdateBatch ==
  \A t \in Slots :
    LET task == tasks[t]
    IN (task.kind = "update" /\ "NO_APPLY" \notin task.flags)
       => /\ task.sent = <<[method |-> "UpgradePackages",
                            args |-> NamesOf(Named(task.list))]>>
          /\ task.status = "pending"
               => /\ Cardinality({c \in calls : c.task = t}) = 1
                  /\ \A e \in ListOf(task) :
                       IF HasPackageName(e)
                       THEN apps[e].state = "INSTALLING"
                       ELSE apps[e].state = task.pre[e]
          /\ (/\ task.status = "returned"
              /\ ~RemoteFailed(task)
              /\ task.res.success)
               => /\ \A e \in ListOf(task) :
                       HasPackageName(e) => apps[e].state = "INSTALLED"
                  /\ updates_changed = task.pre_changed + 1
                  /\ task.value = TRUE

\* an update of A (with a package name) and C (without) has succeeded
C7_Witness ==
  \E t \in Slots :
    /\ Returned(tasks[t], "update")
    /\ tasks[t].list = <<"A", "C">>
    /\ tasks[t].sent # <<>>
    /\ tasks[t].sent[1].args = <<"pkg.a">>
    /\ tasks[t].value = TRUE
    /\ tasks[t].pre["A"] # "INSTALLED"
    /\ apps["A"].state = "INSTALLED"

\* C8: when the UpgradePackages call has failed or replied success = false,
\* the updateApps has completed with an error, every included entity is
\* still Installing, no other entity of the list changed state, and no
\* updates-changed signal was emitted.
C8_UpdateFailureNoRollback ==
  \A t \in Slots :
    LET task == tasks[t]
    IN (/\ Returned(task, "update")
        /\ task.sent # <<>>
        /\ RemoteFailed(task) \/ ~task.res.success)
       => /\ task.error # NoError
          /\ task.value = FALSE
          /\ \A e \in ListOf(task) :
               IF HasPackageName(e)
               THEN apps[e].state = "INSTALLING"
               ELSE apps[e].state = task.pre[e]
          /\ updates_changed = task.pre_changed

\* an update of B, answered without error and with success = false
C8_Witness ==
  \E t \in Slots :
    /\ Returned(tasks[t], "update")
    /\ tasks[t].list = <<"B">>
    /\ tasks[t].res = [error |-> NoError, success |-> FALSE]
    /\ tasks[t].error = Failed
    /\ apps["B"].state = "INSTALLING"

\* C9: a step that invokes updateApps with the no-apply flag completes the
\* task at once with success, issues no call, and changes neither an
\* entity's state nor the installed and updatable caches.
C9_NoApplyIsImmediate ==
  [][\A t \in Slots :
       (/\ tasks[t] = NoTask
        /\ tasks'[t].kind = "update"
        /\ "NO_APPLY" \in tasks'[t].flags)
       => /\ tasks'[t].status = "returned"
          /\ tasks'[t].value = TRUE
          /\ tasks'[t].error = NoError
          /\ tasks'[t].sent = <<>>
          /\ UNCHANGED <<apps, calls, caches, updates_changed>>]_vars

\* an update of two entities with no-apply has completed, the installed
\* cache holding entries
C9_Witness ==
  \E t \in Slots :
    /\ Returned(tasks[t], "update")
    /\ "NO_APPLY" \in tasks[t].flags
    /\ Len(tasks[t].list) = 2
    /\ tasks[t].value = TRUE
    /\ installed_apps # <<>>

\* C10: when an installApps, uninstallApps or updateApps has completed,
\* every entity of its list that the plugin does not manage is in the state
\* it had at the call.
C10_NotManagedUntouched ==
  \A t \in Slots :
    LET task == tasks[t]
    IN (/\ task.kind \in {"install", "uninstall", "update"}
        /\ task.status = "returned")
       => \A e \in ListOf(task) :
            ~gs_app_has_management_plugin(e) => apps[e].state = task.pre[e]

(***************************************************************************)
(* Properties of the listings.                                             *)
(***************************************************************************)
\* the task is a listApps that issued the method and whose call succeeded
ListingOk(task, method) ==
  /\ Returned(task, "list_apps")
  /\ task.sent # <<>>
  /\ task.sent[1].method = method
  /\ ~RemoteFailed(task)

\* the entries of a field-map reply that carry packageName, in reply order
WithPackageName(reply) == SelectSeq(reply, LAMBDA e : e.packageName # NULL)

\* C11: when an installed listing has succeeded, the installed cache holds
\* exactly the entities decoded from its reply, one for each entry with a
\* packageName, whatever the cache held before: never a union with earlier
\* replies, and the same content after a second identical reply.
C11_InstalledCacheIsLatestReply ==
  \A t \in Slots :
    LET task == tasks[t]
        entries == WithPackageName(task.reply[1])
    IN ListingOk(task, "GetInstalledApps")
       => /\ installed_apps = task.result
          /\ Len(installed_apps) = Len(entries)
          /\ \A i \in 1..Len(entries) :
               /\ installed_apps[i].id = entries[i].id
               /\ installed_apps[i].package_name = entries[i].packageName

\* a second installed listing has succeeded over a cache that held an entry,
\* its reply decoding to that same entry: the cache holds it once
C11_Witness ==
  \E t \in Slots :
    /\ ListingOk(tasks[t], "GetInstalledApps")
    /\ Len(tasks[t].pre_caches[1]) = 1
    /\ tasks[t].result = tasks[t].pre_caches[1]
    /\ Len(installed_apps) = 1

\* C12: the updatable cache only grows: while and after any operation it
\* still starts with what it held at the call, and when an updatable
\* listing has succeeded it is what it held at the call followed by the
\* entities decoded from the reply, so that N listings answering the same
\* single entry leave N entries.
C12_UpdatableCacheIsAdditive ==
  \A t \in Slots :
    LET task == tasks[t]
        before == task.pre_caches[2]
    IN /\ task # NoTask
          => /\ Len(updatable_apps) >= Len(before)
             /\ SubSeq(updatable_apps, 1, Len(before)) = before
       /\ ListingOk(task, "GetUpgradable")
          => /\ updatable_apps = before \o task.result
             /\ Len(task.result) = Len(WithPackageName(task.reply[1]))

\* a second updatable listing has succeeded with the same single entry as
\* the first: the cache holds two entries
C12_Witness ==
  \E t \in Slots :
    /\ ListingOk(tasks[t], "GetUpgradable")
    /\ Len(tasks[t].result) = 1
    /\ tasks[t].pre_caches[2] = tasks[t].result
    /\ Len(updatable_apps) = 2
    /\ updatable_apps[1] = updatable_apps[2]

C14_SearchCrossReference ==
  \A t \in Slots :
    LET task == tasks[t]
        elems == task.reply[1].elems
    IN (ListingOk(task, "Search") /\ task.reply[1].doc = "array")
       => /\ Len(task.result) = Len(elems)
          /\ \A i \in 1..Len(elems) :
               task.result[i].state =
                 IF \E j \in 1..Len(installed_apps) :
                      installed_apps[j].package_name = elems[i].id
                 THEN "INSTALLED"
                 ELSE "AVAILABLE"

\* the query sets nothing but the property p
Only(q, p) ==
  /\ ~q.null
  /\ q.others = 0
  /\ \A o \in {"is_source", "is_installed", "is_for_update"} \ {p} :
       q[o] = "UNSET"
  /\ p # "keywords" => q.keywords = NULL

\* the method a query is to be answered with; NULL for an unsupported query
MethodFor(q) ==
  CASE Only(q, "is_source") /\ q.is_source = "TRUE" -> "GetRepositories"
    [] Only(q, "is_installed") /\ q.is_installed = "TRUE" -> "GetInstalledApps"
    [] Only(q, "is_for_update") /\ q.is_for_update = "TRUE" -> "GetUpgradable"
    [] Only(q, "keywords") /\ q.keywords # NULL -> "Search"
    [] OTHER -> NULL

\* C15: a listApps whose query sets exactly one property, and that one
\* is-source = true, is-installed = true, is-for-update = true or keywords,
\* issues one call, of GetRepositories, GetInstalledApps, GetUpgradable or
\* Search respectively, and is pending until the call is answered; for
\* every other query it has completed with the unsupported error, issued no
\* call and left the installed and updatable caches as they were.
C15_QueryDispatch ==
  \A t \in Slots :
    LET task == tasks[t]
        query == task.query[1]
        method == MethodFor(query)
    IN task.kind = "list_apps"
       => IF method # NULL
          THEN /\ Len(task.sent) = 1
               /\ task.sent[1].method = method
               /\ task.sent[1].args =
                    IF method = "Search" THEN <<query.keywords>> ELSE <<>>
               /\ task.status = "pending"
                    <=> \E c \in calls : c.task = t /\ c.method = method
          ELSE /\ task.status = "returned"
               /\ task.error = NotSupported
               /\ task.value = FALSE
               /\ task.sent = <<>>
               /\ \A c \in calls : c.task # t
               /\ caches = task.pre_caches

\* a listApps asking for is-installed = true and is-source = true at once has
\* been rejected, the installed cache holding an entry
C15_Witness ==
  \E t \in Slots :
    /\ Returned(tasks[t], "list_apps")
    /\ tasks[t].query[1].is_installed = "TRUE"
    /\ tasks[t].query[1].is_source = "TRUE"
    /\ tasks[t].error = NotSupported
    /\ installed_apps # <<>>

(***************************************************************************)
(* Properties of the completions.                                          *)
(***************************************************************************)
\* C16: the completion of every invocation is fired at most once (not at
\* all while it is pending), and a fired completion carries a success value
\* or an error, not both and not neither.
C16_SingleCompletion ==
  \A t \in Slots :
    LET task == tasks[t]
    IN /\ task.fired <= 1
       /\ task.status = "pending" => task.fired = 0
       /\ task.status = "returned"
            => /\ task.fired = 1
               /\ (task.value = TRUE) # (task.error # NoError)

\* C17: every invocation eventually completes, the remote side answering
\* every issued call; this includes an invocation made with no proxy held.
C17_EveryInvocationCompletes ==
  \A t \in Slots :
    (tasks[t].status = "pending") ~> (tasks[t].status # "pending")

\* C18: whichever remote method was called, an error of the remote side is
\* handed to the host out of its D-Bus envelope.
C18_RemoteErrorsUnwrapped ==
  \A t \in Slots :
    LET task == tasks[t]
    IN (task.status = "returned" /\ task.res.error.enveloped)
         => /\ task.error = Unwrapped(task)
            /\ ~task.error.enveloped

(***************************************************************************)
(* The proxy.                                                              *)
(***************************************************************************)
\* the calls whose callback ran in this step
Answered == calls \ calls'

\* a setup whose callback ran has completed: with success and its proxy held,
\* or with an error (the connection error when the connection failed) and
\* the proxy as it was
SetupCompleted(c) ==
  LET task == tasks'[c.task]
  IN /\ Returned(task, "setup")
     /\ \/ /\ task.value = TRUE
           /\ task.error = NoError
           /\ fdroid_proxy' = <<task.serial>>
        \/ /\ task.value = FALSE
           /\ task.error \in SetupErrors
           /\ task.res.error = ConnectionError => task.error = ConnectionError
           /\ fdroid_proxy' = fdroid_proxy

ProxyStep ==
  /\ \A c \in Answered :
       c.method = "g_dbus_proxy_new_for_bus" => SetupCompleted(c)
  /\ fdroid_proxy' # fdroid_proxy
       => \E c \in Answered : c.method = "g_dbus_proxy_new_for_bus"

\* C19: the proxy held changes only when a setup completes successfully, and
\* then to the proxy of that setup, so after any sequence of setups it is the
\* one of the successful setup that completed last; a setup that fails
\* completes with its error (the connection error when the connection
\* failed) and leaves the proxy as it was.
C19_ProxyOfLastSuccessfulSetup == [][ProxyStep]_vars

\* two setups overlapped and both succeeded, the one invoked first completing
\* last: its proxy is the one held
C19_Witness ==
  /\ \A t \in Slots : Returned(tasks[t], "setup") /\ tasks[t].error = NoError
  /\ \E t, u \in Slots :
       /\ tasks[t].serial < tasks[u].serial
       /\ fdroid_proxy = <<tasks[t].serial>>

(***************************************************************************)
(* The reply of Search.                                                    *)
(***************************************************************************)
\* C20: a search completes with success only when the reply is a valid
\* document whose root is an array; for any other reply it completes with an
\* error, and in both cases the caches are as they were at the call.
C20_SearchDecodeError ==
  \A t \in Slots :
    LET task == tasks[t]
    IN (/\ Returned(task, "list_apps")
        /\ task.sent # <<>>
        /\ task.sent[1].method = "Search"
        /\ task.reply # <<>>)
         => /\ caches = task.pre_caches
            /\ task.reply[1].doc # "array"
                 => /\ task.error = DecodeError
                    /\ task.value = FALSE
                    /\ task.result = <<>>

(***************************************************************************)
(* Cancellation.  A call whose cancellable is cancelled before its         *)
(* callback runs makes g_dbus_proxy_call_finish (for a setup,              *)
(* g_dbus_proxy_new_for_bus_finish) fail with G_IO_ERROR_CANCELLED.        *)
(***************************************************************************)
WasCancelled(task) == task.status = "returned" /\ task.res.error = Cancelled

RollsBack == {"install", "uninstall", "remove_repository"}

\* C21 (as amended): an invocation whose call was cancelled completes with
\* the cancellation error and no success value; the target of a cancelled
\* install, uninstall or remove-repository is rolled back to the last
\* non-transient state it held (its state at the call, unless it was already
\* Installing or Removing then).
C21_CancelledCallFails ==
  \A t \in Slots :
    LET task == tasks[t]
    IN WasCancelled(task)
         => /\ task.value = FALSE
            /\ task.result = <<>>
            /\ task.error = Cancelled
            /\ task.kind \in RollsBack => RolledBack(task, task.task_data[1])

\* C21 as stated: an invocation whose call was cancelled completes with an
\* error and no success value, and the target of a cancelled install,
\* uninstall or remove-repository is back in the state it had at the call.
\* Taken where no other entity is in a transient state, it fails for a
\* target that a failed updateApps left Installing.
C21_CancelRestoresPreCall ==
  \A t \in Slots :
    LET task == tasks[t]
    IN (WasCancelled(task) /\ task.kind \in RollsBack
        /\ OnlyTransient(task.task_data[1]))
         => /\ task.value = FALSE
            /\ task.error # NoError
            /\ apps[task.task_data[1]].state = task.pre[task.task_data[1]]

\* the removal of repository R, Installed at the call, was cancelled and R is
\* Installed again
C21_Witness ==
  \E t \in Slots :
    /\ WasCancelled(tasks[t])
    /\ tasks[t].kind = "remove_repository"
    /\ tasks[t].pre["R"] = "INSTALLED"
    /\ tasks[t].error = Cancelled
    /\ apps["R"].state = "INSTALLED"

(***************************************************************************)
(* The flags of installApps.                                               *)
(***************************************************************************)
\* C22: an installApps with the no-download or the no-apply flag has
\* completed as soon as it is invoked, with the unsupported-operation error;
\* it has issued no remote call and every entity is in the state it had at
\* the call.
C22_InstallFlagsRejected ==
  \A t \in Slots :
    LET task == tasks[t]
    IN (task.kind = "install" /\ task.flags # {})
         => /\ task.status = "returned"
            /\ task.error = NotSupported
            /\ task.value = FALSE
            /\ task.sent = <<>>
            /\ task.task_data = <<>>
            /\ \A c \in calls : c.task # t
            /\ \A e \in Entities : apps[e].state = task.pre[e]

\* an installApps of A alone, a valid single target, was rejected for its
\* no-download flag and A is still Available
C22_Witness ==
  \E t \in Slots :
    /\ Returned(tasks[t], "install")
    /\ tasks[t].list = <<"A">>
    /\ tasks[t].flags = {"NO_DOWNLOAD"}
    /\ tasks[t].error = NotSupported
    /\ apps["A"].state = "AVAILABLE"

(***************************************************************************)
(* The repository listing.                                                 *)
(***************************************************************************)
RepoUrls(reply) == {reply[i][2] : i \in 1..Len(reply)}

\* the last pair of the reply that carries the url
LastWith(reply, url) ==
  CHOOSE i \in 1..Len(reply) :
    /\ reply[i][2] = url
    /\ \A j \in (i + 1)..Len(reply) : reply[j][2] # url

CacheKeys(cache) == {e.key : e \in cache}

\* the callback of a GetRepositories call that succeeded has returned one
\* repository per pair and cached each under its url
RepositoriesListed(c) ==
  LET task == tasks'[c.task]
      reply == task.reply[1]
      list == task.result
  IN task.res.error = NoError
       => /\ task.status = "returned"
          /\ task.value = TRUE
          /\ task.error = NoError
          /\ Len(list) = Len(reply)
          /\ \A i \in 1..Len(reply) :
               /\ list[i].id = reply[i][1]
               /\ list[i].url = reply[i][2]
               /\ list[i].kind = "REPOSITORY"
               /\ list[i].owned
               /\ list[i].state = "INSTALLED"
          /\ CacheKeys(plugin_cache') = CacheKeys(plugin_cache) \cup RepoUrls(reply)
          /\ \A e \in plugin_cache' :
               IF e.key \in RepoUrls(reply)
               THEN e.app = list[LastWith(reply, e.key)]
               ELSE e \in plugin_cache
          /\ \A e, f \in plugin_cache' : e.key = f.key => e = f

RepositoriesStep ==
  \A c \in Answered : c.method = "GetRepositories" => RepositoriesListed(c)

\* C23: a successful repository listing returns one entity per (name, url)
\* pair of the reply, in reply order, each of kind repository, owned by the
\* plugin and Installed; after it the plugin cache holds, under every url of
\* the reply, the entity of the last pair with that url, and its keys are
\* the keys it had and the urls of the reply.
C23_RepositoryListing == [][RepositoriesStep]_vars

\* a listing whose reply names url1 twice has succeeded: two repositories
\* were returned and the cache holds the second under url1
C23_Witness ==
  \E t \in Slots :
    /\ ListingOk(tasks[t], "GetRepositories")
    /\ tasks[t].reply = <<(<<(<<"repo1", "url1">>), (<<"repo2", "url1">>)>>)>>
    /\ Len(tasks[t].result) = 2
    /\ \E e \in plugin_cache : e.key = "url1" /\ e.app.id = "repo2"

(***************************************************************************)
(* The icons of search results.                                            *)
(***************************************************************************)
\* the element carries, in its package object, an icon_url that begins with
\* http:// or https://
HasWebIcon(e) ==
  /\ e.package
  /\ e.icon_url # NoUrl
  /\ e.icon_url[1] \in {"http://", "https://"}

\* C24: a search whose reply is an array completes successfully with one
\* entity per element, and the entity has an icon exactly when the element
\* has an icon_url beginning with http:// or https://; an element with
\* another icon_url, with none, or with no package object gives an entity
\* without icon.
C24_IconOnlyForWebUrl ==
  \A t \in Slots :
    LET task == tasks[t]
    IN (/\ ListingOk(task, "Search")
        /\ task.reply # <<>>
        /\ task.reply[1].doc = "array")
         => /\ task.value = TRUE
            /\ Len(task.result) = Len(task.reply[1].elems)
            /\ \A i \in 1..Len(task.result) :
                 task.result[i].icon <=> HasWebIcon(task.reply[1].elems[i])

(***************************************************************************)
(* The frame of the two caches.                                            *)
(***************************************************************************)
\* the callback of a call of the method ran in this step, for a call that
\* succeeded
Succeeded(method) ==
  \E c \in Answered :
    /\ c.method = method
    /\ tasks'[c.task].res.error = NoError

CacheStep ==
  /\ installed_apps' # installed_apps => Succeeded("GetInstalledApps")
  /\ updatable_apps' # updatable_apps => Succeeded("GetUpgradable")
  /\ Answered = {} => caches' = caches

\* C25: the installed cache changes only in the step that runs the callback
\* of a successful GetInstalledApps call, and the updatable cache only in
\* the step that runs the callback of a successful GetUpgradable call; every
\* invocation, every callback of a failed call and every callback of
\* another method leave both caches as they were.
C25_CachesChangeOnlyInListings == [][CacheStep]_vars

\* an install of A has succeeded and the installed cache, which holds an
\* entry of an earlier listing, has no entry for A's package
C25_Witness ==
  \E t \in Slots :
    /\ Returned(tasks[t], "install")
    /\ tasks[t].task_data = <<"A">>
    /\ tasks[t].value = TRUE
    /\ apps["A"].state = "INSTALLED"
    /\ installed_apps # <<>>
    /\ ~IsInstalled(installed_apps, gs_app_get_metadata_item("A"))

(***************************************************************************)
(* The state machine of an entity.                                         *)
(***************************************************************************)
Edges ==
  {<<"AVAILABLE", "INSTALLING">>, <<"INSTALLING", "INSTALLED">>,
   <<"INSTALLED", "REMOVING">>, <<"REMOVING", "AVAILABLE">>,
   <<"UPDATABLE", "INSTALLING">>}

\* the step takes the entity from a transient state back to the state
\* recorded for its recovery
IsRollback(e) ==
  /\ apps[e].state \in TransientStates
  /\ apps'[e].state = apps[e].state_recover

EdgeStep ==
  \A e \in Entities :
    apps'[e].state # apps[e].state
      => \/ <<apps[e].state, apps'[e].state>> \in Edges
         \/ IsRollback(e)

\* C26: every change of an entity's state is an edge of the state machine
\* (Available to Installing, Installing to Installed, Installed to Removing,
\* Removing to Available, Updatable to Installing) or a rollback from
\* Installing or Removing to the entity's earlier state.
C26_StateMachineEdges == [][EdgeStep]_vars

(***************************************************************************)
(* Targets without a package name.                                         *)
(***************************************************************************)
\* C27: a target of an updateApps that has no package name has no entry in
\* the UpgradePackages call and keeps the state it had at the call, while
\* the call is in flight and after it has completed.  Taken for the targets
\* owned by the plugin.
C27_UpdateSkipsUnnamed ==
  \A t \in Slots :
    LET task == tasks[t]
    IN (task.kind = "update" /\ task.sent # <<>>)
         => /\ task.sent[1].args = NamesOf(Named(task.list))
            /\ \A e \in ListOf(task) :
                 (gs_app_has_management_plugin(e) /\ ~HasPackageName(e))
                   => apps[e].state = task.pre[e]

\* the list has no entity that is owned by the plugin and has a package name
NoValidTarget(list) ==
  \A i \in 1..Len(list) :
    gs_app_has_management_plugin(list[i]) => ~HasPackageName(list[i])

\* C28: an install or uninstall that issued its remote call has a target
\* with a package name and sent that name; one whose list has no owned
\* entity with a package name has completed with the unsupported-operation
\* error and has issued no call; no Install or UninstallApp call in flight
\* carries an absent package name.
C28_CallOnlyWithPackageName ==
  /\ \A t \in Slots :
       LET task == tasks[t]
       IN task.kind \in {"install", "uninstall"}
            => /\ task.sent # <<>>
                    => /\ HasPackageName(task.task_data[1])
                       /\ task.sent[1].args =
                            <<gs_app_get_metadata_item(task.task_data[1])>>
               /\ NoValidTarget(task.list)
                    => /\ task.status = "returned"
                       /\ task.error = NotSupported
                       /\ task.sent = <<>>
  /\ \A c \in calls :
       c.method \in {"Install", "UninstallApp"} => c.args # <<NULL>>

(***************************************************************************)
(* Overlapping install and uninstall of one entity.                        *)
(***************************************************************************)
\* the task is an install or uninstall that issued its remote call
IsCall(task) == task.kind \in {"install", "uninstall"} /\ task.sent # <<>>

\* the callback of an Install or UninstallApp call leaves its target in a
\* non-transient state: the final state of the operation when the call
\* succeeded, the last non-transient state the target held when it failed
Settled(c) ==
  LET task == tasks'[c.task]
      app == task.task_data[1]
  IN /\ task.status = "returned"
     /\ apps'[app].state \in StableStates
     /\ IF task.res.error # NoError
        THEN /\ apps'[app].state = apps[app].state_recover
             /\ apps'[app].state_recover = apps[app].state_recover
        ELSE apps'[app].state =
               IF c.method = "Install" THEN "INSTALLED" ELSE "AVAILABLE"

\* when the operation invoked last is an install or uninstall that has
\* completed, its target is in a non-transient state
LastSettled ==
  \A t \in Slots :
    (IsCall(tasks[t]) /\ tasks[t].status = "returned"
       /\ tasks[t].serial = nops)
      => apps[tasks[t].task_data[1]].state \in StableStates

OverlapStep ==
  /\ \A c \in Answered :
       c.method \in {"Install", "UninstallApp"} => Settled(c)
  /\ LastSettled'

\* C29: however install and uninstall invocations on one owned entity
\* overlap, the completion of each leaves the entity in a non-transient
\* state, so the entity is in one once all of them have completed; a failing
\* one rolls the entity back to the last non-transient state it held, not to
\* the transient state the other operation set.
C29_OverlapEndsSettled == [][OverlapStep]_vars

\* an uninstall of A was invoked while an install of A was in flight; the
\* install has succeeded, then the uninstall has failed, and A is Installed
C29_Witness ==
  \E t, u \in Slots :
    /\ Returned(tasks[t], "install") /\ tasks[t].task_data = <<"A">>
    /\ tasks[t].value = TRUE
    /\ Returned(tasks[u], "uninstall") /\ tasks[u].task_data = <<"A">>
    /\ tasks[u].pre["A"] = "INSTALLING"
    /\ tasks[u].res.error = RemoteError
    /\ apps["A"].state = "INSTALLED"

====
